---- MODULE Spec2Model ----
(***************************************************************************)
(* Model of the holiday_status sensor                                      *)
(* (custom_components/holiday_status/sensor.py).                           *)
(*                                                                         *)
(* One HolidayStatusSensor instance lives in a single-threaded asyncio     *)
(* event loop.  A coroutine runs without interruption between two awaits,  *)
(* so every action below is the code between two suspension points.  The   *)
(* only suspension points of _async_update_data are the awaits of          *)
(* session.get() and response.json(); no instance attribute is read or     *)
(* written between them, so they are one suspended position ("get").       *)
(*                                                                         *)
(* Python str values that are not ASCII are written in pinyin:             *)
(*   "gongzuori" = 工作日   "xiuxiri" = 休息日   "jiejiari" = 节假日       *)
(*   "weizhi"    = 未知     "cuowu"   = 错误                               *)
(* An optional Python value (None or v) is the sequence <<>> or <<v>>.     *)
(***************************************************************************)
EXTENDS Integers, Sequences, FiniteSets, TLC

VARIABLES
    _state,           \* self._state
    _attributes,      \* self._attributes (a dict: a function on its keys)
    _unsub_listener,  \* self._unsub_listener (None or the cancel handle)
    tracked,          \* host: the live async_track_time_change registrations
    removed,          \* host: async_will_remove_from_hass has run
    pc,               \* position of each coroutine
    today,            \* local `today` of each suspended _async_update_data
    clock,            \* host clock: index of the current day
    gets,             \* number of session.get() calls made, by queried month
    calls,            \* number of _async_update_data invocations, by month
    writes,           \* number of async_write_ha_state() calls made so far
    sink,             \* what the last async_write_ha_state() published
    raised,           \* coroutines whose _async_update_data raised to its caller
    fate,             \* network: whether the GETs of this run are answered
                      \* at some time, or never
    registered,       \* number of async_track_time_change() calls made so far
    last              \* history of the last update that returned: the answer,
                      \* its `today` and the kind of result it replaced

vars == <<_state, _attributes, _unsub_listener, tracked, removed, pc, today,
          clock, gets, calls, writes, sink, raised, fate, registered, last>>

(***************************************************************************)
(* Bounds of the model.                                                    *)
(***************************************************************************)
\* number of sampled days the host clock runs through
MaxDays == 3
\* number of _async_update_data invocations in one behaviour
MaxCalls == 2

(***************************************************************************)
(* datetime.now() and strftime.  The clock samples the days                *)
(* 2025-01-01 (Wed), 2025-01-18 (Sat), 2025-02-04 (Tue), 2025-02-21 (Fri), *)
(* ... (every 17th day of the year 2025).                                  *)
(***************************************************************************)
MonthLen == <<31, 28, 31, 30, 31, 30, 31, 31, 30, 31, 30, 31>>

\* day of the year (1-based) of the i-th sampled day
Ordinal(i) == 1 + (i - 1) * 17

RECURSIVE MonthOf(_, _)
MonthOf(n, m) == IF n <= MonthLen[m] THEN m ELSE MonthOf(n - MonthLen[m], m + 1)

RECURSIVE DayOf(_, _)
DayOf(n, m) == IF n <= MonthLen[m] THEN n ELSE DayOf(n - MonthLen[m], m + 1)

\* the datetime the clock shows on sampled day i
Now(i) == [year |-> 2025, month |-> MonthOf(Ordinal(i), 1),
           day |-> DayOf(Ordinal(i), 1)]

Digit == <<"0", "1", "2", "3", "4", "5", "6", "7", "8", "9">>
D2(n) == Digit[((n \div 10) % 10) + 1] \o Digit[(n % 10) + 1]
D4(n) == D2(n \div 100) \o D2(n % 100)

\* today.strftime("%Y%m")
StrfYm(d) == D4(d.year) \o D2(d.month)
\* today.strftime("%m%d")
StrfMd(d) == D2(d.month) \o D2(d.day)
\* today.strftime("%Y-%m-%d")
StrfDate(d) == D4(d.year) \o "-" \o D2(d.month) \o "-" \o D2(d.day)
\* datetime.now().isoformat(), at the clock's resolution of one day
IsoFormat(d) == StrfDate(d) \o "T00:00:01"

Days == 1..MaxDays
MonthKeys == {StrfYm(Now(i)) : i \in Days}

(***************************************************************************)
(* STATUS_MAP and the labels.                                              *)
(***************************************************************************)
\* mutants of STATUS_MAP: codes 0 and 1 swapped; code 1 mapped to the holiday label
STATUS_MAP_Swapped == (0 :> "xiuxiri") @@ (1 :> "gongzuori") @@ (2 :> "jiejiari")
STATUS_MAP_RestIsHoliday == (0 :> "gongzuori") @@ (1 :> "jiejiari") @@ (2 :> "jiejiari")

STATUS_MAP == (0 :> "gongzuori") @@ (1 :> "xiuxiri") @@ (2 :> "jiejiari")
\* const.py: the three steady labels
STATE_WEEKDAY == "gongzuori"
STATE_WEEKEND == "xiuxiri"
STATE_HOLIDAY == "jiejiari"
\* the two degraded labels, lines 136, 143, 151, 155
STATE_UNKNOWN == "weizhi"
STATE_ERROR == "cuowu"
\* self._state = None
NoState == "None"

(***************************************************************************)
(* What session.get(url) can answer.                                       *)
(***************************************************************************)
EmptyDict == [k \in {} |-> k]

\* the "type" codes a day entry can carry
TypeCodes == 0..3
TypeNames == {"New Year"}

\* a day entry that is a JSON object: "type" and "typename" both optional
\* (an entry with a code but no typename is sampled for code 0)
EntryFields ==
    {EmptyDict}
    \cup {[type |-> c] : c \in {0}}
    \cup {[typename |-> n] : n \in TypeNames}
    \cup {[type |-> c, typename |-> n] : c \in TypeCodes, n \in TypeNames}

\* a day entry: a JSON object, or a JSON scalar with no .get
Entries ==
    {[shape |-> "dict", fields |-> f] : f \in EntryFields}
    \cup {[shape |-> "scalar", fields |-> EmptyDict]}

\* the value under the YYYYMM key m: an object of at most one day of that
\* month (keyed MMDD), or null
MonthValues(m) ==
    {[shape |-> "dict", days |-> EmptyDict]}
    \cup {[shape |-> "dict", days |-> (StrfMd(Now(i)) :> e)] :
             i \in {j \in Days : StrfYm(Now(j)) = m}, e \in Entries}
    \cup {[shape |-> "null", days |-> EmptyDict]}

\* the JSON body: an object of at most one month, or a JSON array
Payloads ==
    {[shape |-> "dict", body |-> EmptyDict]}
    \cup UNION {{[shape |-> "dict", body |-> (m :> v)] : v \in MonthValues(m)} :
                  m \in MonthKeys}
    \cup {[shape |-> "list", body |-> EmptyDict]}

NoPayload == [shape |-> "none", body |-> EmptyDict]

\* the ways the awaits of lines 115 to 117 can end
Responses ==
    {[kind |-> k, data |-> NoPayload] :
        k \in {"timeout", "conn_error", "http_error", "bad_json"}}
    \cup {[kind |-> "json", data |-> p] : p \in Payloads}

\* what the network does with the GETs: it answers each at some time, or it
\* answers none
Fates == {"answers", "never"}

\* mutant of Await: no timeout around the awaits
Await_NoTimeout(f) ==
    IF f = "never" THEN {}
    ELSE {r \in Responses : r.kind # "timeout"}

\* line 114, async_timeout.timeout(10) around the awaits of lines 115 to 117:
\* the ways they end for a GET of fate f (an answer may come too late as well)
Await(f) ==
    IF f = "never" THEN {[kind |-> "timeout", data |-> NoPayload]}
    ELSE Responses

(***************************************************************************)
(* _async_update_data, lines 113 to 160.                                   *)
(***************************************************************************)
\* the exception classes the try body can raise, each with its base classes
Bases ==
    [TimeoutError |-> {"TimeoutError", "Exception"},
     ClientConnectorError |-> {"ClientConnectorError", "ClientError", "Exception"},
     ClientResponseError |-> {"ClientResponseError", "ClientError", "Exception"},
     ContentTypeError |-> {"ContentTypeError", "ClientError", "Exception"},
     AttributeError |-> {"AttributeError", "Exception"},
     TypeError |-> {"TypeError", "Exception"}]

Raise(exc) == [exc |-> exc, state |-> NoState, attributes |-> EmptyDict]
Assign(s, a) == [exc |-> "", state |-> s, attributes |-> a]

\* dict.get(key): None when the key is absent
Get(dict, key) == IF key \in DOMAIN dict THEN <<dict[key]>> ELSE <<>>

\* mutant of ClassifyEntry: a code outside STATUS_MAP falls back to the
\* workday label
ClassifyEntry_FallbackWorkday(today_info, d, now) ==
    IF today_info.shape # "dict" THEN Raise("AttributeError")
    ELSE LET holiday_type == Get(today_info.fields, "type")
             holiday_typename == Get(today_info.fields, "typename")
         IN IF holiday_type # <<>> /\ holiday_type[1] \in DOMAIN STATUS_MAP
            THEN Assign(STATUS_MAP[holiday_type[1]],
                        [api_raw_type |-> holiday_type[1],
                         api_typename |-> holiday_typename,
                         date |-> StrfDate(d),
                         last_updated |-> IsoFormat(now)])
            ELSE Assign(STATUS_MAP[0],
                        [error |-> "invalid or missing type",
                         api_raw_response_for_today |-> today_info])

\* mutant of ClassifyEntry: the date attribute is taken at the time of the
\* write, not from `today`
ClassifyEntry_DateIsNow(today_info, d, now) ==
    IF today_info.shape # "dict" THEN Raise("AttributeError")
    ELSE LET holiday_type == Get(today_info.fields, "type")
             holiday_typename == Get(today_info.fields, "typename")
         IN IF holiday_type # <<>> /\ holiday_type[1] \in DOMAIN STATUS_MAP
            THEN Assign(STATUS_MAP[holiday_type[1]],
                        [api_raw_type |-> holiday_type[1],
                         api_typename |-> holiday_typename,
                         date |-> StrfDate(now),
                         last_updated |-> IsoFormat(now)])
            ELSE Assign(STATE_UNKNOWN,
                        [error |-> "invalid or missing type",
                         api_raw_response_for_today |-> today_info])

\* lines 126 to 141: today's entry was found
ClassifyEntry(today_info, d, now) ==
    IF today_info.shape # "dict" THEN Raise("AttributeError")
    ELSE LET holiday_type == Get(today_info.fields, "type")
             holiday_typename == Get(today_info.fields, "typename")
         IN IF holiday_type # <<>> /\ holiday_type[1] \in DOMAIN STATUS_MAP
            THEN Assign(STATUS_MAP[holiday_type[1]],
                        [api_raw_type |-> holiday_type[1],
                         api_typename |-> holiday_typename,
                         date |-> StrfDate(d),
                         last_updated |-> IsoFormat(now)])
            ELSE Assign(STATE_UNKNOWN,
                        [error |-> "invalid or missing type",
                         api_raw_response_for_today |-> today_info])

\* mutant of NoDataForToday: a day without data counts as a workday
NoDataForToday_Workday(data, api_date_month) ==
    IF data.shape # "dict" THEN Raise("AttributeError")
    ELSE Assign(STATUS_MAP[0],
                [error |-> "no data for today",
                 api_response_month_data |-> Get(data.body, api_date_month)])

\* mutant of NoDataForToday: a day without data leaves the state None
NoDataForToday_StateNone(data, api_date_month) ==
    IF data.shape # "dict" THEN Raise("AttributeError")
    ELSE Assign(NoState,
                [error |-> "no data for today",
                 api_response_month_data |-> Get(data.body, api_date_month)])

\* lines 142 to 148: the month or the day is not in the body
NoDataForToday(data, api_date_month) ==
    IF data.shape # "dict" THEN Raise("AttributeError")
    ELSE Assign(STATE_UNKNOWN,
                [error |-> "no data for today",
                 api_response_month_data |-> Get(data.body, api_date_month)])

\* lines 121 to 148: the body was parsed
CheckData(data, d, now) ==
    LET api_date_month == StrfYm(d)
        api_date_day == StrfMd(d)
    IN IF data.shape # "dict" THEN NoDataForToday(data, api_date_month)
       ELSE IF api_date_month \notin DOMAIN data.body
            THEN NoDataForToday(data, api_date_month)
       ELSE IF data.body[api_date_month].shape # "dict" THEN Raise("TypeError")
       ELSE IF api_date_day \notin DOMAIN data.body[api_date_month].days
            THEN NoDataForToday(data, api_date_month)
       ELSE ClassifyEntry(data.body[api_date_month].days[api_date_day], d, now)

\* lines 114 to 148: the try body
TryBody(resp, d, now) ==
    CASE resp.kind = "timeout" -> Raise("TimeoutError")
      [] resp.kind = "conn_error" -> Raise("ClientConnectorError")
      [] resp.kind = "http_error" -> Raise("ClientResponseError")
      [] resp.kind = "bad_json" -> Raise("ContentTypeError")
      [] resp.kind = "json" -> CheckData(resp.data, d, now)

\* mutant of Except: the second clause catches aiohttp.ClientError only
Except_ClientErrorOnly(exc) ==
    IF "TimeoutError" \in Bases[exc]
    THEN [caught |-> TRUE, state |-> STATE_ERROR,
          attributes |-> [error |-> "API request timed out"]]
    ELSE IF "ClientError" \in Bases[exc]
    THEN [caught |-> TRUE, state |-> STATE_ERROR,
          attributes |-> [error |-> "API request failed: " \o exc]]
    ELSE [caught |-> FALSE, state |-> NoState, attributes |-> EmptyDict]

\* mutant of Except: the clause of line 150 is missing
Except_NoTimeoutClause(exc) ==
    IF "Exception" \in Bases[exc]
    THEN [caught |-> TRUE, state |-> STATE_ERROR,
          attributes |-> [error |-> "API request failed: " \o exc]]
    ELSE [caught |-> FALSE, state |-> NoState, attributes |-> EmptyDict]

\* lines 150 to 157: the except clauses, tried in order
Except(exc) ==
    IF "TimeoutError" \in Bases[exc]
    THEN [caught |-> TRUE, state |-> STATE_ERROR,
          attributes |-> [error |-> "API request timed out"]]
    ELSE IF "Exception" \in Bases[exc]
    THEN [caught |-> TRUE, state |-> STATE_ERROR,
          attributes |-> [error |-> "API request failed: " \o exc]]
    ELSE [caught |-> FALSE, state |-> NoState, attributes |-> EmptyDict]

\* async_write_ha_state(): the host reads the two properties (lines 58 to 66)
WriteHaState(s, a) == [state |-> s, attributes |-> a]

\* mutant of Handle: the new attributes are merged into the old ones
Handle_Merge(r, s, a) ==
    IF r.exc = ""
    THEN [state |-> r.state, attributes |-> r.attributes @@ a, raises |-> FALSE,
          written |-> <<WriteHaState(r.state, r.attributes @@ a)>>]
    ELSE [state |-> Except(r.exc).state,
          attributes |-> Except(r.exc).attributes @@ a, raises |-> FALSE,
          written |-> <<WriteHaState(Except(r.exc).state,
                                     Except(r.exc).attributes @@ a)>>]

\* mutant of Handle: the except clauses add the error text to the attributes
\* they find (dict.update) instead of assigning a new dict
Handle_ErrorIntoOldAttributes(r, s, a) ==
    IF r.exc = ""
    THEN [state |-> r.state, attributes |-> r.attributes, raises |-> FALSE,
          written |-> <<WriteHaState(r.state, r.attributes)>>]
    ELSE [state |-> Except(r.exc).state,
          attributes |-> Except(r.exc).attributes @@ a, raises |-> FALSE,
          written |-> <<WriteHaState(Except(r.exc).state,
                                     Except(r.exc).attributes @@ a)>>]

\* mutant of Handle: async_write_ha_state() at the end of the try body instead
\* of in a finally clause
Handle_WriteInTry(r, s, a) ==
    IF r.exc = ""
    THEN [state |-> r.state, attributes |-> r.attributes, raises |-> FALSE,
          written |-> <<WriteHaState(r.state, r.attributes)>>]
    ELSE [state |-> Except(r.exc).state, attributes |-> Except(r.exc).attributes,
          raises |-> FALSE, written |-> <<>>]

\* lines 150 to 157 applied to the outcome r of the try body, and the
\* finally clause of lines 158 to 160: the new _state and _attributes, whether
\* an exception leaves the coroutine, and the async_write_ha_state() calls
\* made, in order
Handle(r, s, a) ==
    IF r.exc = ""
    THEN [state |-> r.state, attributes |-> r.attributes, raises |-> FALSE,
          written |-> <<WriteHaState(r.state, r.attributes)>>]
    ELSE IF Except(r.exc).caught
    THEN [state |-> Except(r.exc).state, attributes |-> Except(r.exc).attributes,
          raises |-> FALSE,
          written |-> <<WriteHaState(Except(r.exc).state,
                                     Except(r.exc).attributes)>>]
    ELSE [state |-> s, attributes |-> a, raises |-> TRUE,
          written |-> <<WriteHaState(s, a)>>]

\* lines 113 to 160, from the answer of the GET to the return
UpdateData(resp, d, now, s, a) == Handle(TryBody(resp, d, now), s, a)

\* API_BASE_URL.format(date=api_date_month)
API_BASE_URL(date) == "http://tool.bitefu.net/jiari/?d=" \o date \o "&info=1"

\* mutant of StartUpdate: a failure is sticky, no GET while the held state is
\* the error label
StartUpdate_SkipAfterError(d, s, a) ==
    IF s = STATE_ERROR THEN <<>> ELSE <<API_BASE_URL(StrfYm(d))>>

\* mutant of StartUpdate: no GET when the held result was classified in the
\* month of d
StartUpdate_Cached(d, s, a) ==
    IF /\ "date" \in DOMAIN a
       /\ \E i \in Days : a.date = StrfDate(Now(i)) /\ StrfYm(Now(i)) = StrfYm(d)
    THEN <<>>
    ELSE <<API_BASE_URL(StrfYm(d))>>

\* mutant of StartUpdate: no GET while the unknown label is held
StartUpdate_SkipAfterUnknown(d, s, a) ==
    IF s = STATE_UNKNOWN THEN <<>> ELSE <<API_BASE_URL(StrfYm(d))>>

\* lines 99 to 115, up to the first await: the URLs session.get() is
\* called with, in order
StartUpdate(d, s, a) == <<API_BASE_URL(StrfYm(d))>>

(***************************************************************************)
(* The state machine.                                                      *)
(***************************************************************************)
Coroutines == {"added", "sched", "manual"}

\* the cancel handle async_track_time_change returns
Unsub == "unsub"

\* mutant of Registers: the daily callback is registered before the first
\* update is awaited
Registers_BeforeUpdate(pos, raises, s) ==
    IF pos = "begin" THEN <<Unsub>> ELSE <<>>

\* async_added_to_hass, lines 68 to 83: the async_track_time_change() calls
\* it makes, in order, before the await of line 72 (pos = "begin") and after
\* it (pos = "resume"), where the update raised or left _state = s
Registers(pos, raises, s) ==
    IF pos = "resume" /\ ~raises THEN <<Unsub>> ELSE <<>>

NoWrite == [state |-> NoState, attributes |-> EmptyDict]

\* the kind of result a _state stands for: none yet, a label of STATUS_MAP,
\* or one of the two labels of the other branches
ResultKind(s) ==
    IF s = NoState THEN "none"
    ELSE IF s \in {STATUS_MAP[k] : k \in DOMAIN STATUS_MAP} THEN "classified"
    ELSE "degraded"

Total(f) == LET RECURSIVE Sum(_)
                Sum(S) == IF S = {} THEN 0
                          ELSE LET x == CHOOSE x \in S : TRUE
                               IN f[x] + Sum(S \ {x})
            IN Sum(DOMAIN f)

\* __init__, lines 50 to 56
Init ==
    /\ _state = NoState
    /\ _attributes = EmptyDict
    /\ _unsub_listener = <<>>
    /\ tracked = {}
    /\ removed = FALSE
    /\ pc = [c \in Coroutines |-> "idle"]
    /\ today = [c \in Coroutines |-> 0]
    /\ clock = 1
    /\ gets = [m \in MonthKeys |-> 0]
    /\ calls = [m \in MonthKeys |-> 0]
    /\ writes = 0
    /\ sink = NoWrite
    /\ raised = {}
    /\ fate \in Fates
    /\ registered = 0
    /\ last = [resp |-> [kind |-> "none", data |-> NoPayload], day |-> 0,
               before |-> "none"]

\* _async_update_data from its call to the await of session.get()
Begin(c) ==
    /\ pc[c] = "idle"
    /\ Total(calls) < MaxCalls
    /\ LET m == StrfYm(Now(clock))
           urls == StartUpdate(Now(clock), _state, _attributes)
       IN /\ calls' = [calls EXCEPT ![m] = @ + 1]
          /\ gets' = [k \in MonthKeys |->
                        gets[k] + Cardinality({i \in DOMAIN urls :
                                                 urls[i] = API_BASE_URL(k)})]
    /\ today' = [today EXCEPT ![c] = clock]
    /\ pc' = [pc EXCEPT ![c] = "get"]
    /\ UNCHANGED <<_state, _attributes, removed, clock, writes, sink, raised,
                   fate, last>>

\* _async_update_data from the answer of the GET to its return; `next` is the
\* position the caller is left in
End(c, resp, next) ==
    /\ pc[c] = "get"
    /\ pc' = [pc EXCEPT ![c] = next]
    /\ last' = [resp |-> resp, day |-> today[c], before |-> ResultKind(_state)]
    /\ \E u \in {UpdateData(resp, Now(today[c]), Now(clock), _state, _attributes)} :
          /\ _state' = u.state
          /\ _attributes' = u.attributes
          /\ writes' = writes + Len(u.written)
          /\ sink' = IF u.written = <<>> THEN sink ELSE u.written[Len(u.written)]
          /\ raised' = IF u.raises THEN raised \cup {c} ELSE raised
    /\ today' = [today EXCEPT ![c] = 0]
    /\ UNCHANGED <<removed, clock, gets, calls, fate>>

\* async_added_to_hass, lines 68 to 72: up to the await inside the first update
AddedToHassBegin ==
    /\ ~removed
    /\ Begin("added")
    /\ \E regs \in {Registers("begin", FALSE, _state)} :
          /\ registered' = registered + Len(regs)
          /\ tracked' = tracked \cup {regs[i] : i \in DOMAIN regs}
          /\ _unsub_listener' = IF regs = <<>> THEN _unsub_listener
                                ELSE <<regs[Len(regs)]>>

\* async_added_to_hass, lines 72 to 83: the first update returns and the daily
\* callback is registered (not reached when the update raised)
AddedToHassEnd ==
    \E resp \in Await(fate) :
        /\ End("added", resp, "done")
        /\ \E regs \in {Registers("resume", "added" \in raised', _state')} :
              /\ registered' = registered + Len(regs)
              /\ tracked' = tracked \cup {regs[i] : i \in DOMAIN regs}
              /\ _unsub_listener' = IF regs = <<>> THEN _unsub_listener
                                    ELSE <<regs[Len(regs)]>>

\* async_will_remove_from_hass, lines 85 to 92
WillRemoveFromHass ==
    /\ pc["added"] # "idle"
    /\ ~removed
    /\ removed' = TRUE
    /\ IF _unsub_listener # <<>>
       THEN /\ tracked' = tracked \ {_unsub_listener[1]}
            /\ _unsub_listener' = <<>>
       ELSE UNCHANGED <<tracked, _unsub_listener>>
    /\ UNCHANGED <<_state, _attributes, pc, today, clock, gets, calls, writes,
                   sink, raised, fate, registered, last>>

\* the registered time change fires: _schedule_update, lines 94 to 97, up to
\* the await inside the update
ScheduleUpdateBegin ==
    /\ tracked # {}
    /\ Begin("sched")
    /\ UNCHANGED <<_unsub_listener, tracked, registered>>

ScheduleUpdateEnd ==
    \E resp \in Await(fate) :
        /\ End("sched", resp, "idle")
        /\ UNCHANGED <<_unsub_listener, tracked, registered>>

\* async_update, lines 163 to 166 (homeassistant.update_entity, and the update
\* before the entity is added that async_add_entities(..., True) asks for)
AsyncUpdateBegin ==
    /\ ~removed
    /\ Begin("manual")
    /\ UNCHANGED <<_unsub_listener, tracked, registered>>

AsyncUpdateEnd ==
    \E resp \in Await(fate) :
        /\ End("manual", resp, "idle")
        /\ UNCHANGED <<_unsub_listener, tracked, registered>>

\* the host clock moves to the next sampled day
Tick ==
    /\ clock < MaxDays
    /\ clock' = clock + 1
    /\ UNCHANGED <<_state, _attributes, _unsub_listener, tracked, removed, pc,
                   today, gets, calls, writes, sink, raised, fate, registered,
                   last>>

Next ==
    \/ AddedToHassBegin
    \/ AddedToHassEnd
    \/ WillRemoveFromHass
    \/ ScheduleUpdateBegin
    \/ ScheduleUpdateEnd
    \/ AsyncUpdateBegin
    \/ AsyncUpdateEnd
    \/ Tick

Spec == Init /\ [][Next]_vars

\* every await of lines 115 to 117 ends: the event loop resumes a coroutine
\* whose awaited request was answered or cut off by the timeout
FairSpec ==
    /\ Spec
    /\ WF_vars(AddedToHassEnd)
    /\ WF_vars(ScheduleUpdateEnd)
    /\ WF_vars(AsyncUpdateEnd)

(***************************************************************************)
(* Vocabulary of the properties: what the last update that returned was    *)
(* answered, read off the history variable `last`.                         *)
(***************************************************************************)
Answered == last.day # 0
\* date.weekday() of sampled day i: Monday = 0 ... Sunday = 6 (2025-01-01 is a
\* Wednesday, weekday 2); the code never asks for it
Weekday(i) == (2 + Ordinal(i) - 1) % 7
LastYm == StrfYm(Now(last.day))
LastMd == StrfMd(Now(last.day))
\* the answer was a JSON object
LastIsObject == Answered /\ last.resp.kind = "json" /\ last.resp.data.shape = "dict"
\* ... that holds the key of the queried year-month
LastHasMonth == LastIsObject /\ LastYm \in DOMAIN last.resp.data.body
LastMonthValue == last.resp.data.body[LastYm]
\* ... whose value is an object (an otherwise valid month payload)
LastMonthIsObject == LastHasMonth /\ LastMonthValue.shape = "dict"
\* ... that holds today's day key
LastHasDay == LastMonthIsObject /\ LastMd \in DOMAIN LastMonthValue.days
LastEntry == LastMonthValue.days[LastMd]
\* today's entry is an object
LastEntryIsObject == LastHasDay /\ LastEntry.shape = "dict"
\* today's entry carries type code c
LastCode(c) ==
    /\ LastEntryIsObject
    /\ "type" \in DOMAIN LastEntry.fields
    /\ LastEntry.fields.type = c
\* the evaluated date falls on one of the last two days of the week
LastOnWeekend == Weekday(last.day) \in {5, 6}
\* the published result is the current _state and _attributes
Published(s) == _state = s /\ sink = [state |-> s, attributes |-> _attributes]
\* the month mappings the instance holds between invocations: nothing but
\* _attributes["api_response_month_data"] can hold one
HeldMonthData ==
    IF "api_response_month_data" \in DOMAIN _attributes
       /\ _attributes.api_response_month_data # <<>>
    THEN {_attributes.api_response_month_data[1]}
    ELSE {}

(***************************************************************************)
(* C1: a refresh that finds today's entry with type code 0 publishes the   *)
(* workday label, on a weekday and on a weekend alike.                     *)
(***************************************************************************)
C1_Code0IsWorkday == LastCode(0) => Published(STATE_WEEKDAY)

\* a code 0 entry was classified on a Saturday or Sunday
C1_Witness == LastCode(0) /\ LastOnWeekend /\ Published(STATE_WEEKDAY)

(***************************************************************************)
(* C2, as claimed: with type code 1 the weekend label is published iff the *)
(* date falls on a weekend, and the holiday label on every other weekday.  *)
(***************************************************************************)
C2_AsClaimed ==
    LastCode(1) => IF LastOnWeekend THEN Published(STATE_WEEKEND)
                                    ELSE Published(STATE_HOLIDAY)

(***************************************************************************)
(* C2, amended: with type code 1 the rest-day (weekend) label is published *)
(* whatever the weekday; the weekday of the date is not consulted.         *)
(***************************************************************************)
C2_Code1IsRestDay == LastCode(1) => Published(STATE_WEEKEND)

\* a code 1 entry was classified on a day from Monday to Friday
C2_Witness == LastCode(1) /\ ~LastOnWeekend /\ Published(STATE_WEEKEND)

(***************************************************************************)
(* C3, as claimed: when no update is in flight and the last one fetched    *)
(* the month successfully, an update that starts in the same year-month    *)
(* issues no HTTP GET.                                                     *)
(***************************************************************************)
C3_AsClaimed ==
    [][\A c \in Coroutines :
          (/\ \A k \in Coroutines : pc[k] # "get"
           /\ LastMonthIsObject
           /\ pc'[c] = "get"
           /\ StrfYm(Now(today'[c])) = LastYm)
          => gets' = gets]_vars

(***************************************************************************)
(* C3, amended: nothing is reused; every update issues exactly one HTTP    *)
(* GET for the year-month of its date, so the GETs issued for a month are  *)
(* as many as the updates started in it.                                   *)
(***************************************************************************)
C3_OneGetPerUpdate == \A m \in MonthKeys : gets[m] = calls[m]

\* an update that classified a day returned on that day, and an update
\* started on a later day of the same month has issued the second GET
C3_Witness ==
    /\ LastCode(0)
    /\ "last_updated" \in DOMAIN _attributes
    /\ _attributes.last_updated = IsoFormat(Now(last.day))
    /\ gets[LastYm] = 2
    /\ \E c \in Coroutines :
          pc[c] = "get" /\ today[c] > last.day /\ StrfYm(Now(today[c])) = LastYm

(***************************************************************************)
(* C4, as claimed: the instance holds at most one month mapping, and an    *)
(* update that fetched its month successfully leaves the instance holding  *)
(* exactly that month's mapping, every update having issued one GET.       *)
(***************************************************************************)
C4_AsClaimed ==
    /\ Cardinality(HeldMonthData) <= 1
    /\ \A m \in MonthKeys : gets[m] <= calls[m]
    /\ LastMonthIsObject => HeldMonthData = {LastMonthValue}

(***************************************************************************)
(* C4, amended: the instance keeps no month cache.  Every update issues    *)
(* exactly one GET and replaces _state and _attributes in full: whatever   *)
(* the instance holds comes from the answer to the last update that        *)
(* returned, a month mapping being held only as the diagnostic copy left   *)
(* by an update that found no entry for its day.                           *)
(***************************************************************************)
C4_NoMonthCache ==
    /\ \A m \in MonthKeys : gets[m] = calls[m]
    /\ Answered =>
         /\ HeldMonthData \subseteq (IF LastMonthIsObject /\ ~LastHasDay
                                      THEN {LastMonthValue} ELSE {})
         /\ "api_raw_response_for_today" \in DOMAIN _attributes =>
                LastHasDay /\ _attributes.api_raw_response_for_today = LastEntry
         /\ "api_raw_type" \in DOMAIN _attributes =>
                LastCode(_attributes.api_raw_type)
         /\ "date" \in DOMAIN _attributes =>
                _attributes.date = StrfDate(Now(last.day))

\* after an update of January, an update of February found its entry: no
\* month mapping is held
C4_Witness ==
    /\ gets = [m \in MonthKeys |-> 1]
    /\ LastYm = "202502"
    /\ LastCode(1)
    /\ HeldMonthData = {}
    /\ \A c \in Coroutines : pc[c] # "get"

(***************************************************************************)
(* C5: every failure inside an update (connection error, non-2xx answer,   *)
(* timeout, body that is not JSON or has an unexpected shape, unexpected   *)
(* exception) ends with the unknown or the error label published and       *)
(* `error` as the description in the attributes, and no update ever        *)
(* raises to its caller.                                                   *)
(***************************************************************************)
LastFailed ==
    /\ Answered
    /\ \/ last.resp.kind \in {"timeout", "conn_error", "http_error", "bad_json"}
       \/ ~LastMonthIsObject
       \/ LastHasDay /\ ~LastEntryIsObject

C5_FailuresDegrade ==
    /\ raised = {}
    /\ LastFailed =>
         /\ _state \in {STATE_UNKNOWN, STATE_ERROR}
         /\ Published(_state)
         /\ "error" \in DOMAIN _attributes
         /\ DOMAIN _attributes \cap
               {"api_raw_type", "api_typename", "date", "last_updated"} = {}

\* the body was a JSON array: the AttributeError of line 146 was caught
C5_Witness ==
    /\ Answered
    /\ last.resp.kind = "json"
    /\ last.resp.data.shape = "list"
    /\ Published(STATE_ERROR)
    /\ raised = {}

(***************************************************************************)
(* C6, as claimed: when the month payload is valid but holds no entry for  *)
(* today's day key, the workday label is published and nothing is raised.  *)
(***************************************************************************)
LastLacksDay == LastMonthIsObject /\ ~LastHasDay

C6_AsClaimed == LastLacksDay => Published(STATE_WEEKDAY) /\ raised = {}

(***************************************************************************)
(* C6, amended: when the month payload is valid but holds no entry for     *)
(* today's day key, the unknown label is published, with an error note and *)
(* the month's mapping in the attributes, and nothing is raised.           *)
(***************************************************************************)
C6_MissingDayIsUnknown ==
    LastLacksDay =>
        /\ Published(STATE_UNKNOWN)
        /\ _attributes = [error |-> "no data for today",
                          api_response_month_data |-> <<LastMonthValue>>]
        /\ raised = {}

\* the month held an entry, for another day than today
C6_Witness ==
    /\ LastLacksDay
    /\ LastMonthValue.days # EmptyDict
    /\ Published(STATE_UNKNOWN)

(***************************************************************************)
(* C7, as claimed: when today's entry has no type code or one other than   *)
(* 0 and 1, the workday label is published with a diagnostic note.         *)
(***************************************************************************)
LastCodeNot01 ==
    /\ LastEntryIsObject
    /\ "type" \in DOMAIN LastEntry.fields => LastEntry.fields.type \notin {0, 1}

C7_AsClaimed ==
    LastCodeNot01 => Published(STATE_WEEKDAY) /\ "error" \in DOMAIN _attributes

(***************************************************************************)
(* C7, amended: type code 2 publishes the holiday label with the ordinary  *)
(* attributes; a missing type code or one other than 0, 1 and 2 publishes  *)
(* the unknown label, with an error note and the raw entry in the          *)
(* attributes.                                                             *)
(***************************************************************************)
C7_OtherCodes ==
    LastCodeNot01 =>
        IF LastCode(2)
        THEN /\ Published(STATE_HOLIDAY)
             /\ "error" \notin DOMAIN _attributes
             /\ _attributes.api_raw_type = 2
        ELSE /\ Published(STATE_UNKNOWN)
             /\ _attributes = [error |-> "invalid or missing type",
                               api_raw_response_for_today |-> LastEntry]

\* an entry with type code 3 was met
C7_Witness == LastCode(3) /\ Published(STATE_UNKNOWN)

LastLacksMonth == LastIsObject /\ ~LastHasMonth

C9_MissingMonthKey ==
    /\ [](LastLacksMonth =>
            /\ Published(STATE_UNKNOWN)
            /\ _attributes = [error |-> "no data for today",
                              api_response_month_data |-> <<>>]
            /\ HeldMonthData = {})
    /\ [][\A c \in Coroutines :
             (/\ LastLacksMonth
              /\ pc[c] = "idle"
              /\ pc'[c] = "get"
              /\ StrfYm(Now(today'[c])) = LastYm)
             => gets'[LastYm] = gets[LastYm] + 1]_vars

\* the answer held another month only, and a later update of the same month
\* has issued its GET
C9_Witness ==
    /\ LastLacksMonth
    /\ last.resp.data.body # EmptyDict
    /\ _state = STATE_UNKNOWN
    /\ gets[LastYm] = 2
    /\ \E c \in Coroutines : pc[c] = "get" /\ StrfYm(Now(today[c])) = LastYm

(***************************************************************************)
(* C10: every update that returned, on whatever path, made exactly one     *)
(* async_write_ha_state() call, and that call published the _state and     *)
(* _attributes the update had just computed.                               *)
(***************************************************************************)
InFlight == {c \in Coroutines : pc[c] = "get"}

C10_OneWritePerUpdate ==
    /\ writes = Total(calls) - Cardinality(InFlight)
    /\ sink = IF writes = 0 THEN NoWrite
              ELSE [state |-> _state, attributes |-> _attributes]

\* two updates returned, the last one through an except clause
C10_Witness ==
    /\ writes = 2
    /\ InFlight = {}
    /\ Answered
    /\ last.resp.kind = "http_error"
    /\ sink.state = STATE_ERROR

\* The five labels an update can publish: STATUS_MAP's three, unknown, error.
Labels == {STATE_WEEKDAY, STATE_WEEKEND, STATE_HOLIDAY, STATE_UNKNOWN, STATE_ERROR}

(***************************************************************************)
(* C11: async_added_to_hass registers the daily callback only after its    *)
(* first update has returned and published its result, and it registers it *)
(* exactly once, also when that first update failed: before                *)
(* async_added_to_hass has finished nothing was registered, after it       *)
(* exactly one registration was made and the result was written, and the   *)
(* step that registers is the step in which the first update returns.      *)
(***************************************************************************)
C11_RegistersAfterFirstUpdate ==
    /\ [](/\ registered = (IF pc["added"] = "done" THEN 1 ELSE 0)
          /\ registered > 0 => writes > 0)
    /\ [][registered' # registered =>
             /\ pc["added"] = "get" /\ pc'["added"] = "done"
             /\ writes' = writes + 1
             /\ sink' = [state |-> _state', attributes |-> _attributes']
             /\ _unsub_listener' = <<Unsub>>
             /\ Unsub \in tracked']_vars

\* the first update failed with a timeout and the callback is registered
C11_Witness ==
    /\ pc["added"] = "done"
    /\ Total(calls) = 1
    /\ last.resp.kind = "timeout"
    /\ Published(STATE_ERROR)
    /\ registered = 1
    /\ tracked = {Unsub}
    /\ _unsub_listener = <<Unsub>>

(***************************************************************************)
(* C12: once async_will_remove_from_hass has returned, no scheduled update *)
(* is started again: in no later step does the time-change callback fire   *)
(* and _schedule_update begin an update (an update that was already        *)
(* suspended in its GET may still return).                                 *)
(***************************************************************************)
C12_NoScheduledUpdateAfterRemoval ==
    [][removed => ~(pc["sched"] = "idle" /\ pc'["sched"] = "get")]_vars

(***************************************************************************)
(* C13: at most one update is suspended in its GET at any time: the first  *)
(* update of async_added_to_hass, the scheduled update and async_update    *)
(* never overlap.                                                          *)
(***************************************************************************)
C13_OneUpdateInFlight == Cardinality(InFlight) <= 1

(***************************************************************************)
(* C14: after any update that has returned, the published state is one of  *)
(* the five labels (workday, rest day, holiday, unknown, error), and the   *)
(* state is None only while no update has written yet.                     *)
(***************************************************************************)
C14_FiveLabels ==
    /\ writes = 0 => _state = NoState /\ sink = NoWrite
    /\ writes > 0 => _state \in Labels /\ sink.state = _state
    /\ Answered => writes > 0

\* two updates have returned, the second one published the holiday label
C14_Witness ==
    /\ writes = 2
    /\ last.before # "none"
    /\ Published(STATE_HOLIDAY)

(***************************************************************************)
(* C15: there is no retry and a failure is not sticky: the step that       *)
(* starts an update issues exactly one GET, whatever the held state, the   *)
(* step in which an update returns issues none, also when the GET failed   *)
(* or timed out, and no other step issues one; an update that finds the    *)
(* error label and whose GET brings a code of STATUS_MAP publishes that    *)
(* code's label without an error field when it returns.                    *)
(***************************************************************************)
C15_NoRetryNotSticky ==
    /\ [][\A c \in Coroutines :
             pc'[c] # pc[c] =>
                IF pc'[c] = "get"
                THEN /\ Total(gets') = Total(gets) + 1
                     /\ gets'[StrfYm(Now(clock))] = gets[StrfYm(Now(clock))] + 1
                ELSE gets' = gets]_vars
    /\ [][pc' = pc => gets' = gets]_vars
    /\ [][\A k \in DOMAIN STATUS_MAP :
             (_state = STATE_ERROR /\ writes' # writes /\ LastCode(k)') =>
                /\ Published(STATUS_MAP[k])'
                /\ "error" \notin DOMAIN _attributes']_vars

\* an update failed, the next one fetched again and published the holiday
\* label
C15_Witness ==
    /\ last.before = "degraded"
    /\ LastCode(2)
    /\ Published(STATE_HOLIDAY)
    /\ Total(gets) = 2
    /\ InFlight = {}

\* the attribute keys of a classification, lines 128 to 133
SuccessKeys == {"api_raw_type", "api_typename", "date", "last_updated"}

(***************************************************************************)
(* C16: every update replaces the previous result as a whole.  After an    *)
(* update that published the error label the attributes are the error text *)
(* alone; after one that published the unknown label they are the error    *)
(* text and the echo of the present answer; in both cases none of the raw  *)
(* type, source label, date or last-updated fields of an earlier           *)
(* classification is left.  After a classification the attributes are      *)
(* exactly those four fields, without the error field of an earlier        *)
(* failure.  What was written to the host is the same mapping.             *)
(***************************************************************************)
C16_ResultReplaced ==
    Answered =>
       /\ sink = [state |-> _state, attributes |-> _attributes]
       /\ _state \in {STATUS_MAP[k] : k \in DOMAIN STATUS_MAP} =>
             DOMAIN _attributes = SuccessKeys
       /\ _state = STATE_ERROR => DOMAIN _attributes = {"error"}
       /\ _state = STATE_UNKNOWN =>
             DOMAIN _attributes \in {{"error", "api_raw_response_for_today"},
                                     {"error", "api_response_month_data"}}
       /\ _state \in {STATE_ERROR, STATE_UNKNOWN} <=> "error" \in DOMAIN _attributes

\* an update found the result of a classification and failed with a
\* connection error: the error text is all that is left
C16_Witness ==
    /\ last.before = "classified"
    /\ last.resp.kind = "conn_error"
    /\ Published(STATE_ERROR)
    /\ DOMAIN _attributes = {"error"}

\* the answer {"202501": {"0101": {"type": 1, "typename": "New Year"}}} to an
\* update whose `today` is Wednesday 2025-01-01
NewYearScenario ==
    /\ Answered
    /\ Now(last.day) = [year |-> 2025, month |-> 1, day |-> 1]
    /\ Weekday(last.day) = 2
    /\ last.resp = [kind |-> "json",
                    data |-> [shape |-> "dict",
                              body |-> ("202501" :>
                                 [shape |-> "dict",
                                  days |-> ("0101" :>
                                     [shape |-> "dict",
                                      fields |-> [type |-> 1,
                                                  typename |-> "New Year"]])])]]

\* the attributes of a classification of today's entry: its raw type code,
\* its typename (None when it has none), the evaluated date and a timestamp
\* taken between the start of the update and now
AttributesOfEntry ==
    /\ DOMAIN _attributes = SuccessKeys
    /\ _attributes.api_raw_type = LastEntry.fields.type
    /\ _attributes.api_typename = Get(LastEntry.fields, "typename")
    /\ _attributes.date = StrfDate(Now(last.day))
    /\ \E i \in last.day..clock : _attributes.last_updated = IsoFormat(Now(i))

(***************************************************************************)
(* C17, as claimed: a classification carries the raw type code and the     *)
(* source label of today's entry, the evaluated date and a last-updated    *)
(* timestamp, and the New Year payload on Wednesday 2025-01-01 publishes   *)
(* the holiday label with raw type 1 and label "New Year".                 *)
(***************************************************************************)
C17_AsClaimed ==
    /\ \A k \in DOMAIN STATUS_MAP : LastCode(k) => AttributesOfEntry
    /\ NewYearScenario =>
          /\ Published(STATE_HOLIDAY)
          /\ _attributes.api_raw_type = 1
          /\ _attributes.api_typename = <<"New Year">>

(***************************************************************************)
(* C17, amended: a classification carries the raw type code and the source *)
(* label of today's entry, the evaluated date and a last-updated           *)
(* timestamp, and the New Year payload on Wednesday 2025-01-01 publishes   *)
(* the rest-day label with raw type 1 and label "New Year".                *)
(***************************************************************************)
C17_AttributesOfClassification ==
    /\ \A k \in DOMAIN STATUS_MAP :
          LastCode(k) => Published(STATUS_MAP[k]) /\ AttributesOfEntry
    /\ NewYearScenario =>
          /\ Published(STATE_WEEKEND)
          /\ _attributes = [api_raw_type |-> 1,
                            api_typename |-> <<"New Year">>,
                            date |-> "2025-01-01",
                            last_updated |-> _attributes.last_updated]

\* the New Year payload was classified by an update that started on
\* 2025-01-01 and returned on a later day
C17_Witness ==
    /\ NewYearScenario
    /\ Published(STATE_WEEKEND)
    /\ _attributes.api_typename = <<"New Year">>
    /\ _attributes.date = "2025-01-01"
    /\ _attributes.last_updated # IsoFormat(Now(last.day))

(***************************************************************************)
(* C18: every update that has started returns and publishes, whether its   *)
(* GET is answered or never is: again and again no coroutine is suspended  *)
(* in a GET (so each one that was suspended has left it, the first update  *)
(* awaited by async_added_to_hass included), and the state has been        *)
(* written once for every update except those still suspended.             *)
(***************************************************************************)
C18_UpdateTerminates ==
    /\ [](writes + Cardinality(InFlight) = Total(calls))
    /\ []<>(InFlight = {})

\* an update whose GET was never answered has returned with the timeout
\* text published
C18_Witness ==
    /\ fate = "never"
    /\ last.resp.kind = "timeout"
    /\ Published(STATE_ERROR)
    /\ _attributes = [error |-> "API request timed out"]
    /\ InFlight = {}

(***************************************************************************)
(* C19: a time-change callback is registered only while the entity is      *)
(* attached: a registration exists, or a cancel handle is held, only when  *)
(* async_added_to_hass has finished and async_will_remove_from_hass has    *)
(* not run; in particular none is left when both have finished, also when  *)
(* the removal ran while the first update was suspended.                   *)
(***************************************************************************)
C19_RegisteredOnlyWhileAttached ==
    (tracked # {} \/ _unsub_listener # <<>>) =>
        (pc["added"] = "done" /\ ~removed)

====
